---------------------------- MODULE Spec2Model ----------------------------
(***************************************************************************)
(* A model of shm_dict.SHMDict (src/shm_dict/shm_dict.py): a mapping kept  *)
(* in a named POSIX shared memory segment, guarded by a named semaphore    *)
(* and optionally mirrored to a file.                                      *)
(*                                                                         *)
(* Every handle lives in a process of its own and is used by the thread    *)
(* that constructed it.  The operating system's objects (segments,         *)
(* semaphores, the name spaces, the persistence files) are global state.   *)
(* A segment is kept as its byte length and the mapping whose pickle it    *)
(* holds at offset 0; "ok" is FALSE when the bytes at offset 0 are not a   *)
(* complete pickle (a fresh segment of zeros, or a pickle cut by           *)
(* ftruncate and refilled with zeros).                                     *)
(***************************************************************************)
EXTENDS Integers, Sequences, FiniteSets, TLC

\* ------------------------------------------------------------ the universe

Handles == {"A", "B"}
Keys == {"K1", "K2"}
\* "V1" is a short string, "VB" a string of BigLen characters.
Vals == {"V1", "VB"}
\* Logical names, as sequences of characters.
Names == {<<"n", "1">>, <<"n", "2">>}

\* Model bounds.
BigLen == 5000
MaxObj == 4
MaxHist == 4
MaxHistP == 8

\* Program constants: mmap.PAGESIZE, posix_ipc.PAGE_SIZE, the default lock_timeout.
PAGESIZE == 4096
PAGE_SIZE == 4096
DefaultLockTimeout == 30

\* ------------------------------------------------------------ mappings

EmptyDict == << >>
SetOf(f) == {<<k, f[k]>> : k \in DOMAIN f}
Dicts == UNION {[D -> Vals] : D \in SUBSET Keys}
DictSet(d, k, v) == [x \in (DOMAIN d) \cup {k} |-> IF x = k THEN v ELSE d[x]]
DictDel(d, k) == [x \in (DOMAIN d) \ {k} |-> d[x]]

\* An optional mapping: None, or a dict object's contents.
None == [some |-> FALSE, d |-> EmptyDict]
Some(d) == [some |-> TRUE, d |-> d]

\* ------------------------------------------------------------ the codec

StrLen(s) == IF s = "VB" THEN BigLen ELSE 2

RECURSIVE SumOver(_, _)
SumOver(S, d) ==
  IF S = {} THEN 0
  ELSE LET k == CHOOSE x \in S : TRUE
       IN  (StrLen(k) + 7) + (StrLen(d[k]) + 7) + SumOver(S \ {k}, d)

\* len(pickle.dumps(obj, 2)): PROTO 2, then N for None, or EMPTY_DICT BINPUT,
\* the items (each string BINUNICODE + BINPUT; SETITEM for one item, MARK ..
\* SETITEMS for more), then STOP.
PickleLen2(o) ==
  IF ~o.some THEN 4
  ELSE LET n == Cardinality(DOMAIN o.d)
       IN  6 + SumOver(DOMAIN o.d, o.d)
             + (IF n = 0 THEN 0 ELSE IF n = 1 THEN 1 ELSE 2)

RECURSIVE SumOver4(_, _)
SumOver4(S, d) ==
  IF S = {} THEN 0
  ELSE LET k == CHOOSE x \in S : TRUE
           l(s) == IF StrLen(s) < 256 THEN StrLen(s) + 3 ELSE StrLen(s) + 6
       IN  l(k) + l(d[k]) + SumOver4(S \ {k}, d)

\* len(pickle.dumps(obj)) with the default protocol (4): PROTO, a FRAME header
\* when the payload has 4 bytes or more, EMPTY_DICT MEMOIZE, the items, STOP.
PickleLenDefault(o) ==
  IF ~o.some THEN 4
  ELSE LET n == Cardinality(DOMAIN o.d)
       IN  IF n = 0 THEN 5
           ELSE 2 + 9 + 2 + SumOver4(DOMAIN o.d, o.d)
                  + (IF n = 1 THEN 1 ELSE 2) + 1

\* ceil(float(n) / mmap.PAGESIZE) * mmap.PAGESIZE
RoundUp(n) == ((n + PAGESIZE - 1) \div PAGESIZE) * PAGESIZE

\* ------------------------------------------------------------ names

\* "_".join([prefix, str(name)]): the characters of the prefix, "_", the name.
Joined(prefix, n) == prefix \o <<"_">> \o n

\* The SHA-512 digest, base64 encoded, after "/": a one-way function of the
\* joined string, kept as the string it was computed from.
SafeNameMut(prefix, n) == [slash |-> "/", b64 |-> Joined(prefix, << >>)]
_safe_name(prefix, n) == [slash |-> "/", b64 |-> Joined(prefix, n)]
safe_sem_name(n) == _safe_name(<<"s", "e", "m">>, n)
safe_shm_name(n) == _safe_name(<<"s", "h", "m">>, n)

\* os.path.abspath(os.path.realpath(name)): the name below the working directory.
persist_path(n) == <<"/", "c", "w", "d", "/">> \o n

ShmNames == {safe_shm_name(n) : n \in Names}
SemNames == {safe_sem_name(n) : n \in Names}
Paths == {persist_path(n) : n \in Names}

\* ------------------------------------------------------------ the state

VARIABLES
  \* construction parameters of each handle (SHMDict.__init__)
  name, persist, lock_timeout, auto_unlock,
  \* the handle's fields
  alive, _semaphore, _map_file, thread_local, internal_dict, dirty,
  \* the calling thread: its position in the operation, the call it makes, the
  \* facade operations the call still has to make, the call's result, whether it
  \* is inside a "with h.exclusive_lock():" block, and the object (a copy or an
  \* iterator) the caller kept from its last copy() or iter()
  pc, call, todo, result, scope, snap,
  \* the operating system: name -> object, the objects, the files
  shm_ns, sem_ns, segs, sems, pfile,
  \* observers: the history of calls and returns, the plain mapping the same
  \* calls are applied to, the result of the last comparison, whether the call
  \* went on without the semaphore
  hist, ref, cmp, bypassed,
  \* whether the thread held the lock already when the acquisition in progress
  \* began (until its load); a second
  \* thread of the handle's process (its attribute of the thread-local object,
  \* the result of its last call); the paths that cannot be opened for writing
  reentered, other_thread, unwritable

conf == <<name, persist, lock_timeout, auto_unlock>>
fields == <<alive, _semaphore, _map_file, thread_local, internal_dict, dirty>>
thread == <<pc, call, todo, result, scope, snap>>
os == <<shm_ns, sem_ns, segs, sems, pfile>>
obs == <<hist, ref, cmp, bypassed>>
env == <<reentered, other_thread, unwritable>>
vars == <<conf, fields, thread, os, obs, env>>

ObjIds == 1..MaxObj

\* ------------------------------------------------------------ calls and results

NoCall == [kind |-> "none", k |-> "-", v |-> "-", m |-> EmptyDict]
C0(kind) == [kind |-> kind, k |-> "-", v |-> "-", m |-> EmptyDict]
C1k(kind, k) == [kind |-> kind, k |-> k, v |-> "-", m |-> EmptyDict]
C2kv(kind, k, v) == [kind |-> kind, k |-> k, v |-> v, m |-> EmptyDict]
CUpdate(m) == [kind |-> "update", k |-> "-", v |-> "-", m |-> m]

\* One facade operation (a method of SHMDict that takes the lock).
P(op, k, v) == [op |-> op, k |-> k, v |-> v]

R(tag) == [tag |-> tag, v |-> "-", n |-> 0, d |-> EmptyDict, s |-> {}]
RVal(v) == [R("value") EXCEPT !.v = v]
RInt(n) == [R("int") EXCEPT !.n = n]
RBool(b) == R(IF b THEN "True" ELSE "False")
RDict(d) == [R("dict") EXCEPT !.d = d]
RKeys(s) == [R("keys") EXCEPT !.s = s]
NoResult == R("none")

\* A sequence holding the elements of a set, in some fixed order.
RECURSIVE SeqOf(_)
SeqOf(S) ==
  IF S = {} THEN << >>
  ELSE LET x == CHOOSE y \in S : TRUE IN <<x>> \o SeqOf(S \ {x})

\* The facade operations a call makes, in order.  get, pop, update, keys and
\* items are the MutableMapping mixins: get is __getitem__ with KeyError caught,
\* pop is __getitem__ then __delitem__, update is one __setitem__ per key, keys
\* is __iter__, items is __iter__ then one __getitem__ per key.
Expand(c) ==
  CASE c.kind = "setitem" -> <<P("set", c.k, c.v)>>
    [] c.kind \in {"getitem", "get"} -> <<P("get", c.k, "-")>>
    [] c.kind = "delitem" -> <<P("del", c.k, "-")>>
    [] c.kind = "pop" -> <<P("get", c.k, "-"), P("del", c.k, "-")>>
    [] c.kind = "update" ->
         [i \in 1..Cardinality(DOMAIN c.m) |->
            P("set", SeqOf(DOMAIN c.m)[i], c.m[SeqOf(DOMAIN c.m)[i]])]
    [] c.kind = "contains" -> <<P("contains", c.k, "-")>>
    [] c.kind \in {"keys", "items", "iter"} -> <<P("iter", "-", "-")>>
    [] OTHER -> <<P(c.kind, "-", "-")>>

\* ------------------------------------------------------------ the objects

FreeSeg == [len |-> 0, ok |-> FALSE, d |-> EmptyDict]
ZeroSeg(n) == [len |-> n, ok |-> FALSE, d |-> EmptyDict]
NoSnap == [kind |-> "none", alias |-> FALSE, d |-> EmptyDict]
NoFile == None

\* ftruncate(fd, n): a pickle longer than n is cut; the bytes added later are 0.
Truncate(seg, n) ==
  IF seg.ok /\ PickleLen2(Some(seg.d)) <= n
  THEN [seg EXCEPT !.len = n]
  ELSE ZeroSeg(n)

\* An object id no name and no handle refers to.
FreeId(ns, used) ==
  CHOOSE i \in ObjIds : i \notin used /\ (\A nm \in DOMAIN ns : ns[nm] # i)
HasFreeId(ns, used) ==
  \E i \in ObjIds : i \notin used /\ (\A nm \in DOMAIN ns : ns[nm] # i)

Mapped == {_map_file[h] : h \in Handles} \ {0}
Cached == {_semaphore[h] : h \in Handles} \ {0}

\* ------------------------------------------------------------ the named objects

\* SHMDict.shared_mem: open the named segment with size = len(pickle.dumps(dict))
\* (posix_ipc ftruncates an existing segment to a size that is given), or, when
\* there is none, create it with one page.  o is the handle's internal dict.
shared_mem(ns, sg, n, o, used) ==
  LET nm == safe_shm_name(n) IN
  IF ns[nm] # 0
  THEN [ns |-> ns, segs |-> [sg EXCEPT ![ns[nm]] = Truncate(@, PickleLenDefault(o))],
        id |-> ns[nm]]
  ELSE LET id == FreeId(ns, used)
       IN  [ns |-> [ns EXCEPT ![nm] = id],
            segs |-> [sg EXCEPT ![id] = ZeroSeg(PAGE_SIZE)], id |-> id]

\* The length mmap.resize gives the segment (it ftruncates the mapped file).
ResizeLen(o) == RoundUp(PickleLen2(o))

\* SHMDict.map_file: map the segment once (three evaluations of shared_mem: for
\* its fd, for its size, to close the fd), then resize the mapping to the pages
\* the handle's own internal dict needs.
map_file(ns, sg, mf, n, o, used) ==
  LET s1 == shared_mem(ns, sg, n, o, used)
      s2 == shared_mem(s1.ns, s1.segs, n, o, used)
      s3 == shared_mem(s2.ns, s2.segs, n, o, used)
      w  == IF mf = 0 THEN [ns |-> s3.ns, segs |-> s3.segs, mf |-> s1.id]
                      ELSE [ns |-> ns, segs |-> sg, mf |-> mf]
  IN  [w EXCEPT !.segs[w.mf] = Truncate(@, ResizeLen(o))]

\* SHMDict.semaphore: the cached semaphore, or the named one, created with
\* value 1 when there is none.
semaphore(ns, sm, cached, n, used) ==
  LET nm == safe_sem_name(n) IN
  IF cached # 0 THEN [ns |-> ns, sems |-> sm, id |-> cached]
  ELSE IF ns[nm] # 0 THEN [ns |-> ns, sems |-> sm, id |-> ns[nm]]
  ELSE LET id == FreeId(ns, used)
       IN  [ns |-> [ns EXCEPT ![nm] = id], sems |-> [sm EXCEPT ![id] = 1], id |-> id]

\* Objects nothing refers to any more are gone.
CollectSegs(sg, ns, used) ==
  [i \in ObjIds |-> IF i \in used \/ (\E nm \in DOMAIN ns : ns[nm] = i)
                    THEN sg[i] ELSE FreeSeg]
CollectSems(sm, ns, used) ==
  [i \in ObjIds |-> IF i \in used \/ (\E nm \in DOMAIN ns : ns[nm] = i)
                    THEN sm[i] ELSE 0]

\* ------------------------------------------------------------ the observers

Ev(h, ev, c, r) == [h |-> h, ev |-> ev, c |-> c, r |-> r]
Log(e) == IF hist.on THEN [hist EXCEPT !.ev = Append(@, e)] ELSE hist
\* Calls in progress each still log their return.
Pending == Cardinality({h \in Handles : pc[h] # "idle"})
Room(n) == hist.on => Len(hist.ev) + Pending + n <= hist.max

\* What a call does to a plain dict, and what it returns.
PlainApply(d, c) ==
  CASE c.kind = "setitem" -> [d |-> DictSet(d, c.k, c.v), r |-> R("None")]
    [] c.kind = "getitem" ->
         [d |-> d, r |-> IF c.k \in DOMAIN d THEN RVal(d[c.k]) ELSE R("KeyError")]
    [] c.kind = "get" ->
         [d |-> d, r |-> IF c.k \in DOMAIN d THEN RVal(d[c.k]) ELSE R("None")]
    [] c.kind = "delitem" ->
         IF c.k \in DOMAIN d THEN [d |-> DictDel(d, c.k), r |-> R("None")]
                             ELSE [d |-> d, r |-> R("KeyError")]
    [] c.kind = "pop" ->
         IF c.k \in DOMAIN d THEN [d |-> DictDel(d, c.k), r |-> RVal(d[c.k])]
                             ELSE [d |-> d, r |-> R("KeyError")]
    [] c.kind = "update" ->
         [d |-> [x \in (DOMAIN d) \cup (DOMAIN c.m) |->
                   IF x \in DOMAIN c.m THEN c.m[x] ELSE d[x]], r |-> R("None")]
    [] c.kind = "clear" -> [d |-> EmptyDict, r |-> R("None")]
    [] c.kind = "len" -> [d |-> d, r |-> RInt(Cardinality(DOMAIN d))]
    [] c.kind = "contains" -> [d |-> d, r |-> RBool(c.k \in DOMAIN d)]
    [] c.kind \in {"keys", "iter"} -> [d |-> d, r |-> RKeys(DOMAIN d)]
    [] c.kind \in {"items", "copy"} -> [d |-> d, r |-> RDict(d)]
    [] OTHER -> [d |-> d, r |-> R("None")]

RefCall(c) ==
  IF ref.on THEN [on |-> TRUE, d |-> PlainApply(ref.d, c).d, exp |-> PlainApply(ref.d, c).r]
  ELSE ref

\* ------------------------------------------------------------ the initial states

\* threading.local(): the attribute "semaphore" is assigned in the thread that
\* constructs the handle (line 69); in every other thread it does not exist.
NoAttribute == [semaphore |-> "unset", call |-> NoCall, result |-> NoResult]

InitWith(nameSet, persistSet, timeoutSet, unlockSet, histMax, refOn) ==
  /\ name \in nameSet
  /\ persist \in persistSet
  /\ lock_timeout \in timeoutSet
  /\ auto_unlock \in unlockSet
  /\ alive = [h \in Handles |-> TRUE]
  /\ _semaphore = [h \in Handles |-> 0]
  /\ _map_file = [h \in Handles |-> 0]
  /\ thread_local = [h \in Handles |-> FALSE]
  /\ internal_dict = [h \in Handles |-> None]
  /\ dirty = [h \in Handles |-> FALSE]
  /\ pc = [h \in Handles |-> "idle"]
  /\ call = [h \in Handles |-> NoCall]
  /\ todo = [h \in Handles |-> << >>]
  /\ result = [h \in Handles |-> NoResult]
  /\ scope = [h \in Handles |-> FALSE]
  /\ snap = [h \in Handles |-> NoSnap]
  /\ shm_ns = [nm \in ShmNames |-> 0]
  /\ sem_ns = [nm \in SemNames |-> 0]
  /\ segs = [i \in ObjIds |-> FreeSeg]
  /\ sems = [i \in ObjIds |-> 0]
  /\ pfile = [f \in Paths |-> NoFile]
  /\ hist = [on |-> histMax > 0, max |-> histMax, ev |-> << >>]
  /\ ref = [on |-> refOn, d |-> EmptyDict, exp |-> NoResult]
  /\ cmp = [l |-> "-", r |-> "-", eq |-> FALSE, ne |-> FALSE]
  /\ bypassed = [h \in Handles |-> FALSE]
  /\ reentered = [h \in Handles |-> FALSE]
  /\ other_thread = [h \in Handles |-> NoAttribute]
  /\ unwritable = {}

\* ------------------------------------------------------------ the end of a call

\* The call returns r (or raises it) to the caller.
EndCall(h, r) ==
  /\ pc' = [pc EXCEPT ![h] = "idle"]
  /\ todo' = [todo EXCEPT ![h] = << >>]
  /\ call' = [call EXCEPT ![h] = NoCall]
  /\ result' = [result EXCEPT ![h] = r]
  /\ hist' = Log(Ev(h, "res", call[h], r))

\* A facade operation has returned: the call goes on with its next one, if any.
FinishPrim(h) ==
  IF Len(todo[h]) > 1
  THEN /\ pc' = [pc EXCEPT ![h] = "acquire"]
       /\ todo' = [todo EXCEPT ![h] = Tail(@)]
       /\ UNCHANGED <<call, result, hist>>
  ELSE EndCall(h, result[h])

\* A facade operation has raised err: Mapping.get turns KeyError into None,
\* every other call passes the error on.
Raise(h, err) ==
  EndCall(h, IF call[h].kind = "get" /\ err = "KeyError" THEN R("None") ELSE R(err))

\* ------------------------------------------------------------ the operations

\* The caller starts call c on handle h: the first facade operation begins.
Call(h, c) ==
  /\ alive[h] /\ pc[h] = "idle"
  /\ c.kind = "with" => ~scope[h]
  /\ Room(2)
  /\ pc' = [pc EXCEPT ![h] = "acquire"]
  /\ call' = [call EXCEPT ![h] = c]
  /\ todo' = [todo EXCEPT ![h] = Expand(c)]
  /\ result' = [result EXCEPT ![h] = NoResult]
  /\ hist' = Log(Ev(h, "inv", c, NoResult))
  /\ ref' = RefCall(c)
  /\ bypassed' = [bypassed EXCEPT ![h] = FALSE]
  /\ UNCHANGED <<conf, fields, scope, snap, os, cmp, env>>

\* _acquire_lock, "except posix_ipc.BusyError": whether the thread is marked as
\* holding the lock (otherwise the error is raised again).
MarkAlways(h) == TRUE
MarkNever(h) == FALSE
MarkHeldOnBusy(h) == auto_unlock[h]

\* _acquire_lock up to the load: nothing when the thread's flag is set; else
\* semaphore.acquire(lock_timeout), which takes the semaphore when its value is
\* positive, waits when lock_timeout > 0, and raises BusyError at the timeout.
AcquireLock(h) ==
  /\ pc[h] \in {"acquire", "waiting"}
  /\ reentered' = [reentered EXCEPT ![h] = thread_local[h]]
  /\ UNCHANGED <<other_thread, unwritable>>
  /\ IF thread_local[h]
     THEN /\ pc' = [pc EXCEPT ![h] = "load"]
          /\ UNCHANGED <<conf, fields, call, todo, result, scope, snap, os, obs>>
     ELSE LET s == semaphore(sem_ns, sems, _semaphore[h], name[h], Cached) IN
          /\ sem_ns' = s.ns
          /\ _semaphore' = [_semaphore EXCEPT ![h] = s.id]
          /\ UNCHANGED <<conf, alive, _map_file, internal_dict, dirty, scope, snap,
                         shm_ns, segs, pfile, ref, cmp>>
          /\ IF s.sems[s.id] > 0
             THEN /\ sems' = [s.sems EXCEPT ![s.id] = @ - 1]
                  /\ thread_local' = [thread_local EXCEPT ![h] = TRUE]
                  /\ pc' = [pc EXCEPT ![h] = "load"]
                  /\ UNCHANGED <<call, todo, result, hist, bypassed>>
             ELSE /\ sems' = s.sems
                  /\ IF lock_timeout[h] > 0 /\ pc[h] = "acquire"
                     THEN /\ pc' = [pc EXCEPT ![h] = "waiting"]
                          /\ UNCHANGED <<thread_local, call, todo, result, hist, bypassed>>
                     ELSE IF MarkHeldOnBusy(h)
                     THEN /\ thread_local' = [thread_local EXCEPT ![h] = TRUE]
                          /\ pc' = [pc EXCEPT ![h] = "load"]
                          /\ bypassed' = [bypassed EXCEPT ![h] = TRUE]
                          /\ UNCHANGED <<call, todo, result, hist>>
                     ELSE /\ UNCHANGED <<thread_local, bypassed>>
                          /\ Raise(h, "BusyError")

\* __load_dict: the dict unpickled from the segment when it unpickles, else the
\* dict the handle already has; when that is None, the persistence file's dict
\* when the handle persists and the file can be read; when still None, {}.
LoadNoFile(o, seg, p, f) ==
  LET fromSeg == IF seg.ok THEN Some(seg.d) ELSE o
  IN  IF ~fromSeg.some THEN Some(EmptyDict) ELSE fromSeg
__load_dict(o, seg, p, f) ==
  LET fromSeg == IF seg.ok THEN Some(seg.d) ELSE o
      fromFile == IF ~fromSeg.some /\ p /\ f.some THEN Some(f.d) ELSE fromSeg
  IN  IF ~fromFile.some THEN Some(EmptyDict) ELSE fromFile

\* __load_dict with the segment there to be opened, or just created by this
\* handle: map it, resize it, unpickle it.
MapAndLoad(h) ==
  /\ LET w == map_file(shm_ns, segs, _map_file[h], name[h], internal_dict[h], Mapped)
         seg == w.segs[w.mf]
     IN  /\ shm_ns' = w.ns
         /\ segs' = w.segs
         /\ _map_file' = [_map_file EXCEPT ![h] = w.mf]
         /\ internal_dict' = [internal_dict EXCEPT ![h] =
              __load_dict(@, seg, persist[h], pfile[persist_path(name[h])])]
         \* pickle.load makes a new dict: objects kept by the caller are the old one
         /\ snap' = [snap EXCEPT ![h].alias = @ /\ ~seg.ok]
  /\ pc' = [pc EXCEPT ![h] = "body"]
  /\ reentered' = [reentered EXCEPT ![h] = FALSE]
  /\ UNCHANGED <<conf, alive, _semaphore, thread_local, dirty, call, todo, result,
                 scope, sem_ns, sems, pfile, obs, other_thread, unwritable>>

\* Whether the first evaluation of shared_mem by handle h finds no segment:
\* posix_ipc.SharedMemory(name, size=..) raises ExistentialError.
SegmentAbsent(h) == _map_file[h] = 0 /\ shm_ns[safe_shm_name(name[h])] = 0

\* _acquire_lock's last statement.  When the segment is not mapped yet and the
\* open finds none, the handle goes on to create it in a second system call.
LoadDict(h) ==
  /\ pc[h] = "load"
  /\ IF SegmentAbsent(h)
     THEN /\ pc' = [pc EXCEPT ![h] = "create"]
          /\ UNCHANGED <<conf, fields, call, todo, result, scope, snap, os, obs, env>>
     ELSE MapAndLoad(h)

\* shared_mem, "except posix_ipc.ExistentialError": SharedMemory(name, O_CREX,
\* size=PAGE_SIZE) creates the segment, or raises ExistentialError when another
\* process has created it since the open; the error is not caught, the
\* operation ends with it and _release_lock is not reached.
CreateSeg(h) ==
  /\ pc[h] = "create"
  /\ IF shm_ns[safe_shm_name(name[h])] = 0
     THEN MapAndLoad(h)
     ELSE /\ Raise(h, "ExistentialError")
          /\ UNCHANGED <<conf, fields, scope, snap, os, ref, cmp, bypassed, env>>

\* The operations that set __dirty.
DirtyNoSet(op) == op \in {"del", "clear"}
MarksDirty(op) == op \in {"set", "del", "clear"}

\* What copy() returns: a new dict with the internal dict's items.
CopyIsInternal(d) == [kind |-> "copy", alias |-> TRUE, d |-> d]
CopyBody(d) == [kind |-> "copy", alias |-> FALSE, d |-> d]

\* The internal dict is changed in place: so is what the caller holds of it.
InPlace(h, d) ==
  /\ internal_dict' = [internal_dict EXCEPT ![h] = Some(d)]
  /\ snap' = [snap EXCEPT ![h].d = IF snap[h].alias THEN d ELSE @]

\* The body of the "with self.exclusive_lock():" block of a facade operation.
\* An operation that raises leaves the block without _release_lock: the
\* generator of exclusive_lock is not resumed after its yield.
Body(h) ==
  /\ pc[h] = "body"
  /\ LET p == Head(todo[h])
         d == internal_dict[h].d
         c == call[h]
         ok(r) == /\ result' = [result EXCEPT ![h] = r]
                  /\ pc' = [pc EXCEPT ![h] = "save"]
                  /\ UNCHANGED <<call, todo, hist, scope>>
     IN  /\ dirty' = [dirty EXCEPT ![h] = @ \/ (MarksDirty(p.op) /\
                          (p.op = "del" => p.k \in DOMAIN d))]
         /\ CASE p.op = "set" -> InPlace(h, DictSet(d, p.k, p.v)) /\ ok(R("None"))
              [] p.op = "get" ->
                   /\ UNCHANGED <<internal_dict, snap>>
                   /\ IF p.k \notin DOMAIN d THEN Raise(h, "KeyError") /\ UNCHANGED scope
                      ELSE IF c.kind = "items"
                      THEN ok(RDict(DictSet(result[h].d, p.k, d[p.k])))
                      ELSE ok(RVal(d[p.k]))
              [] p.op = "del" ->
                   IF p.k \notin DOMAIN d
                   THEN Raise(h, "KeyError") /\ UNCHANGED <<internal_dict, snap, scope>>
                   ELSE /\ InPlace(h, DictDel(d, p.k))
                        /\ ok(IF c.kind = "pop" THEN result[h] ELSE R("None"))
              [] p.op = "clear" -> InPlace(h, EmptyDict) /\ ok(R("None"))
              [] p.op = "len" ->
                   UNCHANGED <<internal_dict, snap>> /\ ok(RInt(Cardinality(DOMAIN d)))
              [] p.op = "contains" ->
                   UNCHANGED <<internal_dict, snap>> /\ ok(RBool(p.k \in DOMAIN d))
              [] p.op = "copy" ->
                   /\ UNCHANGED internal_dict
                   /\ snap' = [snap EXCEPT ![h] = CopyBody(d)]
                   /\ ok(RDict(d))
              [] p.op = "iter" ->
                   /\ UNCHANGED internal_dict
                   /\ snap' = [snap EXCEPT ![h] =
                        IF c.kind = "iter" THEN [kind |-> "iter", alias |-> TRUE, d |-> d]
                        ELSE @]
                   /\ result' = [result EXCEPT ![h] =
                        IF c.kind = "items" THEN RDict(EmptyDict) ELSE RKeys(DOMAIN d)]
                   /\ todo' = [todo EXCEPT ![h] =
                        IF c.kind = "items"
                        THEN <<p>> \o [i \in 1..Cardinality(DOMAIN d) |->
                                         P("get", SeqOf(DOMAIN d)[i], "-")]
                        ELSE @]
                   /\ pc' = [pc EXCEPT ![h] = "save"]
                   /\ UNCHANGED <<call, hist, scope>>
              [] p.op = "with" ->
                   \* exclusive_lock() yields to the caller's block
                   /\ UNCHANGED <<internal_dict, snap>>
                   /\ scope' = [scope EXCEPT ![h] = TRUE]
                   /\ EndCall(h, R("None"))
  /\ UNCHANGED <<conf, alive, _semaphore, _map_file, thread_local, os, ref, cmp, bypassed, env>>

\* __save_dict, "if self.persist_file is not None": whether the file is written.
NeverPersists(h) == FALSE
SavePersists(h) == persist[h]

\* __save_dict when the write of the persistence file raises: "self.__dirty =
\* False" (line 188) is not executed, so dirty keeps its value.
DirtyClearedAnyway(h) == FALSE
DirtyAfterIOError(h) == dirty[h]

\* _release_lock, "if self.__thread_local.semaphore is True": the whole release
\* is skipped when the thread's flag is not set.
ReleaseNeverSkipped(h) == FALSE
ReleaseSkipped(h) == ~thread_local[h]

\* _release_lock up to the release of the semaphore: nothing when the thread's
\* flag is not set; else __save_dict, which, when dirty, resizes the mapping,
\* pickles the internal dict to offset 0 and writes the persistence file.
SaveDict(h) ==
  /\ pc[h] = "save"
  /\ IF ReleaseSkipped(h)
     THEN /\ FinishPrim(h)
          /\ UNCHANGED <<conf, fields, scope, snap, os, ref, cmp, bypassed, env>>
     ELSE IF dirty[h] /\ SavePersists(h) /\ persist_path(name[h]) \in unwritable
     THEN \* open(self.persist_file, "wb") raises IOError after the segment has
          \* been written: the error leaves __save_dict, _release_lock and the
          \* operation; "self.__dirty = False" is not reached
          /\ LET w == map_file(shm_ns, segs, _map_file[h], name[h],
                               internal_dict[h], Mapped)
             IN  /\ shm_ns' = w.ns
                 /\ _map_file' = [_map_file EXCEPT ![h] = w.mf]
                 /\ segs' = [w.segs EXCEPT ![w.mf] =
                      [len |-> @.len, ok |-> TRUE, d |-> internal_dict[h].d]]
          /\ dirty' = [dirty EXCEPT ![h] = DirtyAfterIOError(h)]
          /\ Raise(h, "IOError")
          /\ UNCHANGED <<conf, alive, _semaphore, thread_local, internal_dict, scope,
                         snap, sem_ns, sems, pfile, ref, cmp, bypassed, env>>
     ELSE /\ IF dirty[h]
             THEN LET w == map_file(shm_ns, segs, _map_file[h], name[h],
                                    internal_dict[h], Mapped)
                  IN  /\ shm_ns' = w.ns
                      /\ _map_file' = [_map_file EXCEPT ![h] = w.mf]
                      /\ segs' = [w.segs EXCEPT ![w.mf] =
                           [len |-> @.len, ok |-> TRUE, d |-> internal_dict[h].d]]
                      /\ pfile' = IF SavePersists(h)
                                  THEN [pfile EXCEPT ![persist_path(name[h])] =
                                          Some(internal_dict[h].d)]
                                  ELSE pfile
             ELSE UNCHANGED <<shm_ns, _map_file, segs, pfile>>
          /\ dirty' = [dirty EXCEPT ![h] = FALSE]
          /\ pc' = [pc EXCEPT ![h] = "release"]
          /\ UNCHANGED <<conf, alive, _semaphore, thread_local, internal_dict, call,
                         todo, result, scope, snap, sem_ns, sems, obs, env>>

\* _release_lock, after the save: semaphore.release() and the flag is cleared.
ReleaseLock(h) ==
  /\ pc[h] = "release"
  /\ LET s == semaphore(sem_ns, sems, _semaphore[h], name[h], Cached) IN
     /\ sem_ns' = s.ns
     /\ _semaphore' = [_semaphore EXCEPT ![h] = s.id]
     /\ sems' = [s.sems EXCEPT ![s.id] = @ + 1]
  /\ thread_local' = [thread_local EXCEPT ![h] = FALSE]
  /\ FinishPrim(h)
  /\ UNCHANGED <<conf, alive, _map_file, internal_dict, dirty, scope, snap,
                 shm_ns, segs, pfile, ref, cmp, bypassed, env>>

\* The caller's "with h.exclusive_lock():" block ends: _release_lock.
ExitScope(h) ==
  /\ alive[h] /\ pc[h] = "idle" /\ scope[h]
  /\ Room(2)
  /\ scope' = [scope EXCEPT ![h] = FALSE]
  /\ call' = [call EXCEPT ![h] = C0("endwith")]
  /\ todo' = [todo EXCEPT ![h] = <<P("endwith", "-", "-")>>]
  /\ result' = [result EXCEPT ![h] = R("None")]
  /\ pc' = [pc EXCEPT ![h] = "save"]
  /\ hist' = Log(Ev(h, "inv", C0("endwith"), NoResult))
  /\ UNCHANGED <<conf, fields, snap, os, ref, cmp, bypassed, env>>

\* The caller's block is left by an exception: exclusive_lock has no
\* try/finally, so nothing is released.
AbortScope(h) ==
  /\ alive[h] /\ pc[h] = "idle" /\ scope[h]
  /\ scope' = [scope EXCEPT ![h] = FALSE]
  /\ UNCHANGED <<conf, fields, pc, call, todo, result, snap, os, obs, env>>

\* __del__: map_file.close(), shared_mem.unlink(), semaphore.unlink().
Destroy(h) ==
  /\ alive[h] /\ pc[h] = "idle" /\ ~scope[h]
  /\ Room(1)
  /\ LET others == {_map_file[g] : g \in Handles \ {h}} \ {0}
         othersem == {_semaphore[g] : g \in Handles \ {h}} \ {0}
         w == map_file(shm_ns, segs, _map_file[h], name[h], internal_dict[h], Mapped)
         u == shared_mem(w.ns, w.segs, name[h], internal_dict[h], others)
         m == semaphore(sem_ns, sems, _semaphore[h], name[h], Cached)
         ns2 == [u.ns EXCEPT ![safe_shm_name(name[h])] = 0]
         sn2 == [m.ns EXCEPT ![safe_sem_name(name[h])] = 0]
     IN  /\ shm_ns' = ns2
         /\ segs' = CollectSegs(u.segs, ns2, others)
         /\ sem_ns' = sn2
         /\ sems' = CollectSems(m.sems, sn2, othersem)
  /\ alive' = [alive EXCEPT ![h] = FALSE]
  /\ _semaphore' = [_semaphore EXCEPT ![h] = 0]
  /\ _map_file' = [_map_file EXCEPT ![h] = 0]
  /\ thread_local' = [thread_local EXCEPT ![h] = FALSE]
  /\ internal_dict' = [internal_dict EXCEPT ![h] = None]
  /\ dirty' = [dirty EXCEPT ![h] = FALSE]
  /\ result' = [result EXCEPT ![h] = NoResult]
  /\ snap' = [snap EXCEPT ![h].alias = FALSE]
  /\ hist' = Log(Ev(h, "del", NoCall, NoResult))
  /\ UNCHANGED <<conf, pc, call, todo, scope, pfile, ref, cmp, bypassed, env>>

\* __init__, with the parameters the handle was constructed with before.
Construct(h) ==
  /\ ~alive[h]
  /\ Room(1)
  /\ alive' = [alive EXCEPT ![h] = TRUE]
  /\ hist' = Log(Ev(h, "new", NoCall, NoResult))
  /\ UNCHANGED <<conf, _semaphore, _map_file, thread_local, internal_dict, dirty,
                 thread, os, ref, cmp, bypassed, env>>

\* The caller changes the dict that copy() returned: c[k] = v, or del c[k].
MutateCopy(h, k, v, del) ==
  /\ snap[h].kind = "copy"
  /\ del => k \in DOMAIN snap[h].d
  /\ LET d == IF del THEN DictDel(snap[h].d, k) ELSE DictSet(snap[h].d, k, v) IN
     /\ d # snap[h].d
     /\ snap' = [snap EXCEPT ![h].d = d]
     /\ internal_dict' = [internal_dict EXCEPT ![h] =
          IF snap[h].alias THEN Some(d) ELSE @]
  /\ UNCHANGED <<conf, alive, _semaphore, _map_file, thread_local, dirty,
                 pc, call, todo, result, scope, os, obs, env>>

\* __eq__ and __ne__; o is a handle, or "dict": a plain dict with h's items.
EqContents(h, o) ==
  o \in Handles /\ internal_dict[h] = internal_dict[o]
__eq__(h, o) ==
  o \in Handles /\ safe_shm_name(name[h]) = safe_shm_name(name[o])
__ne__(h, o) ==
  o \notin Handles \/ (o \in Handles /\ safe_shm_name(name[h]) # safe_shm_name(name[o]))

Compare(h, o) ==
  /\ alive[h] /\ pc[h] = "idle"
  /\ o \in Handles => alive[o]
  /\ cmp' = [l |-> h, r |-> o, eq |-> __eq__(h, o), ne |-> __ne__(h, o)]
  /\ UNCHANGED <<conf, fields, thread, os, hist, ref, bypassed, env>>

\* A thread that did not construct handle h calls c on it: _acquire_lock begins
\* by reading self.__thread_local.semaphore, which raises AttributeError when
\* the attribute does not exist in the thread; nothing has been done by then.
OtherThreadCall(h, c) ==
  /\ alive[h]
  /\ other_thread[h].semaphore = "unset"
  /\ other_thread' = [other_thread EXCEPT ![h] =
       [semaphore |-> "unset", call |-> c, result |-> R("AttributeError")]]
  /\ UNCHANGED <<conf, fields, thread, os, obs, reentered, unwritable>>

\* The environment makes a path unwritable (open for writing raises IOError),
\* or writable again.
Chmod(f) ==
  /\ unwritable' = IF f \in unwritable THEN unwritable \ {f} ELSE unwritable \cup {f}
  /\ UNCHANGED <<conf, fields, thread, os, obs, reentered, other_thread>>

\* The steps of a call in progress.
Step(h) ==
  \/ AcquireLock(h)
  \/ LoadDict(h)
  \/ CreateSeg(h)
  \/ Body(h)
  \/ SaveDict(h)
  \/ ReleaseLock(h)

\* ------------------------------------------------------------ specifications

SetCalls == {C2kv("setitem", k, v) : k \in Keys, v \in Vals}
KeyCalls(kind) == {C1k(kind, k) : k \in Keys}
SameName == {[h \in Handles |-> <<"n", "1">>]}
AllOf(S) == {[h \in Handles |-> x] : x \in S}
AB(a, b) == [h \in Handles |-> IF h = "A" THEN a ELSE b]

\* The lock: two handles on one logical name; A has lock_timeout 0 and no
\* auto_unlock, B either timeout and either policy; calls and with-blocks.
LockCalls ==
  {C2kv("setitem", "K1", "V1"), C1k("getitem", "K1"), C0("len"), C0("with")}
Init ==
  InitWith(SameName, AllOf({FALSE}), {AB(0, t) : t \in {0, DefaultLockTimeout}},
           {AB(FALSE, u) : u \in BOOLEAN}, 0, FALSE)
Next ==
  \E h \in Handles :
    \/ \E c \in LockCalls : Call(h, c)
    \/ Step(h)
    \/ ExitScope(h)
    \/ AbortScope(h)
Spec == Init /\ [][Next]_vars

\* Serial order: two handles on one logical name, no auto_unlock, lock_timeout
\* 0, with the history of calls and returns recorded.
HistCalls ==
  {C2kv("setitem", "K1", "V1"), C2kv("setitem", "K1", "VB"), C2kv("setitem", "K2", "V1"),
   C1k("delitem", "K1"), C0("clear"), C1k("getitem", "K1")}
InitHist ==
  InitWith(SameName, AllOf({FALSE}), AllOf({0}), AllOf({FALSE}), MaxHist, FALSE)
NextHist ==
  \E h \in Handles :
    \/ \E c \in HistCalls : Call(h, c)
    \/ Step(h)
SpecHist == InitHist /\ [][NextHist]_vars

\* Persistence: handle A persists, B may; handles are destroyed and constructed
\* again; the history is recorded.
PersistCalls(h) ==
  {C2kv("setitem", "K1", IF h = "A" THEN "VB" ELSE "V1"), C1k("getitem", "K1")}
InitPersist ==
  InitWith(SameName, {AB(TRUE, b) : b \in BOOLEAN}, AllOf({0}), AllOf({FALSE}),
           MaxHistP, FALSE)
NextPersist ==
  \E h \in Handles :
    \/ \E c \in PersistCalls(h) : Call(h, c)
    \/ Step(h)
    \/ Destroy(h)
    \/ Construct(h)
SpecPersist == InitPersist /\ [][NextPersist]_vars

\* One handle, one thread, a new logical name: every call of the mapping
\* interface, with the same calls applied to a plain dict.
SingleCalls ==
  SetCalls \cup KeyCalls("getitem") \cup KeyCalls("get") \cup KeyCalls("delitem")
    \cup KeyCalls("pop") \cup KeyCalls("contains")
    \cup {CUpdate([k \in Keys |-> IF k = "K1" THEN "VB" ELSE "V1"]),
          CUpdate([k \in {"K2"} |-> "VB"])}
    \cup {C0("clear"), C0("len"), C0("keys"), C0("items")}
InitSingle ==
  InitWith(SameName, AllOf(BOOLEAN), AllOf({0, DefaultLockTimeout}), AllOf(BOOLEAN),
           0, TRUE)
NextSingle ==
  \/ \E c \in SingleCalls : Call("A", c)
  \/ Step("A")
SpecSingle == InitSingle /\ [][NextSingle]_vars

\* copy(): two handles on one logical name; A's caller keeps and changes the
\* dict that copy() returned, while A and B go on changing the dictionary.
CopyCalls(h) ==
  IF h = "A"
  THEN {C0("copy"), C2kv("setitem", "K1", "V1"), C1k("delitem", "K1"), C0("clear")}
  ELSE {C2kv("setitem", "K1", "VB"), C0("clear")}
InitCopy ==
  InitWith(SameName, {AB(TRUE, FALSE)}, AllOf({0}), AllOf({FALSE}), 0, FALSE)
NextCopy ==
  \/ \E h \in Handles :
       \/ \E c \in CopyCalls(h) : Call(h, c)
       \/ Step(h)
  \/ MutateCopy("A", "K2", "V1", FALSE)
  \/ MutateCopy("A", "K1", "-", TRUE)
SpecCopy == InitCopy /\ [][NextCopy]_vars

\* Equality: handles with any logical names and persist settings, compared with
\* each other and with a plain dict.
EqCalls == {C2kv("setitem", "K1", "V1"), C0("clear")}
InitEq ==
  InitWith([Handles -> Names], [Handles -> BOOLEAN], AllOf({0}), AllOf({FALSE}),
           0, FALSE)
NextEq ==
  \E h \in Handles :
    \/ \E c \in EqCalls : Call(h, c)
    \/ Step(h)
    \/ \E o \in Handles \cup {"dict"} : Compare(h, o)
SpecEq == InitEq /\ [][NextEq]_vars

\* Threads: each handle is used by the thread that constructed it and by a
\* second thread of the same process.
ThreadCalls == {C2kv("setitem", "K1", "V1"), C1k("getitem", "K1"), C0("len")}
InitThreads ==
  InitWith(SameName, AllOf({FALSE}), AllOf({0, DefaultLockTimeout}), AllOf({FALSE}),
           0, FALSE)
NextThreads ==
  \E h \in Handles :
    \/ \E c \in ThreadCalls : Call(h, c) \/ OtherThreadCall(h, c)
    \/ Step(h)
SpecThreads == InitThreads /\ [][NextThreads]_vars

\* Failing writes: A persists, B does not; the persistence file's path may be
\* unwritable at any time.
FailCalls ==
  {C2kv("setitem", "K1", "V1"), C1k("delitem", "K1"), C0("clear"), C1k("getitem", "K1")}
InitFail ==
  InitWith(SameName, {AB(TRUE, FALSE)}, AllOf({0}), AllOf({FALSE}), 0, FALSE)
NextFail ==
  \/ \E h \in Handles :
       \/ \E c \in FailCalls : Call(h, c)
       \/ Step(h)
  \/ Chmod(persist_path(<<"n", "1">>))
SpecFail == InitFail /\ [][NextFail]_vars

\* Iteration: A's caller keeps the iterator that iter(h) returned while A and B
\* go on using the dictionary.
IterCalls(h) ==
  IF h = "A"
  THEN {C0("iter"), C2kv("setitem", "K1", "V1"), C2kv("setitem", "K2", "V1"),
        C1k("delitem", "K1"), C0("clear")}
  ELSE {C2kv("setitem", "K2", "VB"), C0("len")}
InitIter ==
  InitWith(SameName, AllOf({FALSE}), AllOf({0}), AllOf({FALSE}), 0, FALSE)
NextIter ==
  \E h \in Handles :
    \/ \E c \in IterCalls(h) : Call(h, c)
    \/ Step(h)
SpecIter == InitIter /\ [][NextIter]_vars

\* ------------------------------------------------------------ claims

\* The value of the semaphore handle h uses: the one it has cached, else the
\* named one, else the one it would create.
SemValue(h) ==
  IF _semaphore[h] # 0 THEN sems[_semaphore[h]]
  ELSE IF sem_ns[safe_sem_name(name[h])] # 0 THEN sems[sem_ns[safe_sem_name(name[h])]]
  ELSE 1

\* C3: after an operation has returned or raised (the thread is outside any
\* operation and any with-block), the thread's held flag is false.
C3_ReleasedOnEveryExit ==
  \A h \in Handles :
    (pc[h] = "idle" /\ ~scope[h] /\ result[h].tag # "none") => ~thread_local[h]

\* C4: with auto_unlock false and lock_timeout 0, the acquisition step of a
\* thread that does not hold the lock, taken while the semaphore's value is 0,
\* ends the operation with BusyError at once (no wait), without marking the
\* thread, without a load, and with semaphores, segments, name spaces, files and
\* the cached mapping unchanged.
C4_BusyFailsClean ==
  [][\A h \in Handles :
       (/\ pc[h] = "acquire" /\ pc'[h] # pc[h]
        /\ ~thread_local[h] /\ ~auto_unlock[h] /\ lock_timeout[h] = 0
        /\ SemValue(h) = 0)
       => (/\ pc'[h] = "idle" /\ result'[h] = R("BusyError")
           /\ ~thread_local'[h]
           /\ UNCHANGED <<sems, sem_ns, segs, shm_ns, pfile, internal_dict,
                          _map_file, dirty>>)]_vars
C4_Witness ==
  \E h \in Handles :
    /\ ~auto_unlock[h] /\ lock_timeout[h] = 0
    /\ pc[h] = "idle" /\ result[h] = R("BusyError") /\ SemValue(h) = 0

C6_HeldThroughScope ==
  \A h \in Handles :
    (scope[h] /\ pc[h] = "idle") => (thread_local[h] /\ SemValue(h) = 0)

\* The mapping the named segment of logical name n holds.
SharedDict(n) ==
  LET id == shm_ns[safe_shm_name(n)]
  IN  IF id # 0 /\ segs[id].ok THEN segs[id].d ELSE EmptyDict

\* The calls of the history that were carried out (they did not end with
\* BusyError), in the order of their returns.
Done == SelectSeq(hist.ev, LAMBDA e : e.ev = "res" /\ e.r.tag # "BusyError")

Perms(n) == {f \in [1..n -> 1..n] : \A i, j \in 1..n : i # j => f[i] # f[j]}

RECURSIVE Replay(_, _, _, _)
Replay(d, ops, f, i) ==
  IF i > Len(ops) THEN d ELSE Replay(PlainApply(d, ops[f[i]].c).d, ops, f, i + 1)

\* C1: when no call is in progress and every call so far was a set item, delete
\* item or clear that returned normally, the shared mapping is what those calls
\* give when applied one after another in some total order.
C1_SomeSerialOrder ==
  (/\ \A h \in Handles : pc[h] = "idle"
   /\ \A i \in 1..Len(hist.ev) :
        /\ hist.ev[i].c.kind \in {"setitem", "delitem", "clear"}
        /\ hist.ev[i].ev = "res" => hist.ev[i].r.tag = "None")
    => \E f \in Perms(Len(Done)) : SharedDict(name["A"]) = Replay(EmptyDict, Done, f, 1)

\* C2: a get item k by one handle, called after a set item k->v by another
\* handle on the same logical name has returned and with no call in between,
\* returns v.
C2_ReadsCompletedWrite ==
  \A i \in 1..(Len(hist.ev) - 2) :
    LET a == hist.ev[i]
        b == hist.ev[i + 1]
        r == hist.ev[i + 2]
    IN  (/\ a.ev = "res" /\ a.c.kind = "setitem" /\ a.r.tag = "None"
         /\ b.ev = "inv" /\ b.h # a.h /\ name[b.h] = name[a.h]
         /\ b.c = C1k("getitem", a.c.k)
         /\ r.ev = "res" /\ r.h = b.h)
        => r.r = RVal(a.c.v)

\* C7: for a persistent handle, with no call of another handle in progress:
\* set item k->v returned, then the handle is destroyed, then constructed again
\* with the same path, then get item k: the get returns v.
Quiet(h, i) ==
  Cardinality({j \in 1..i : hist.ev[j].h = h /\ hist.ev[j].ev = "inv"})
    = Cardinality({j \in 1..i : hist.ev[j].h = h /\ hist.ev[j].ev = "res"})
C7_Pattern(i) ==
  LET e == hist.ev IN
  /\ i + 4 <= Len(e)
  /\ \A h \in Handles \ {e[i].h} : Quiet(h, i)
  /\ persist[e[i].h]
  /\ e[i].ev = "res" /\ e[i].c.kind = "setitem" /\ e[i].r.tag = "None"
  /\ \A j \in 1..4 : e[i + j].h = e[i].h
  /\ e[i + 1].ev = "del" /\ e[i + 2].ev = "new"
  /\ e[i + 3].ev = "inv" /\ e[i + 3].c = C1k("getitem", e[i].c.k)
  /\ e[i + 4].ev = "res"
C7_PersistenceSurvives ==
  \A i \in 1..Len(hist.ev) :
    C7_Pattern(i) => hist.ev[i + 4].r = RVal(hist.ev[i].c.v)
C7_Witness ==
  \E i \in 1..Len(hist.ev) :
    /\ C7_Pattern(i)
    /\ \E j \in 1..i : hist.ev[j].h # hist.ev[i].h /\ hist.ev[j].ev = "res"
                         /\ hist.ev[j].c.kind = "setitem" /\ hist.ev[j].r.tag = "None"
    /\ hist.ev[i + 4].r = RVal("VB")
    /\ shm_ns[safe_shm_name(name[hist.ev[i].h])] # 0

\* C8: on a single handle, every call returns what the same call returns on a
\* plain dict that has received the same calls.
C8_LikePlainDict ==
  (pc["A"] = "idle" /\ result["A"].tag # "none") => result["A"] = ref.exp
C8_Witness ==
  /\ pc["A"] = "idle" /\ result["A"] = RDict([k \in Keys |-> IF k = "K1" THEN "VB" ELSE "V1"])
  /\ ref.exp = result["A"]

\* C9: the dict copy() returned changes only when its holder changes it, and
\* that changes neither the handle's cached mapping nor any segment or file.
C9_CopyIndependent ==
  [][\A h \in Handles :
       snap[h].kind = "copy" =>
         /\ (snap'[h].d # snap[h].d) =>
              \/ pc'[h] = pc[h]
              \/ pc[h] = "body" /\ call[h].kind = "copy"
         /\ (snap'[h].d # snap[h].d /\ pc'[h] = pc[h]) =>
              UNCHANGED <<internal_dict, segs, pfile>>]_vars
C9_Witness ==
  /\ snap["A"].kind = "copy" /\ pc["A"] = "idle"
  /\ snap["A"].d = [k \in Keys |-> "V1"]
  /\ internal_dict["A"] = Some(EmptyDict)
  /\ SharedDict(name["A"]) = EmptyDict

\* C10: h == o holds exactly when o is a handle with h's logical name, whatever
\* the persist settings and the contents; h != o is its negation.
C10_EqualityByName ==
  cmp.l # "-" =>
    /\ cmp.eq = (cmp.r \in Handles /\ name[cmp.l] = name[cmp.r])
    /\ cmp.ne = ~cmp.eq
C10_Witness ==
  /\ cmp.l # "-" /\ cmp.r \in Handles /\ cmp.r # cmp.l
  /\ name[cmp.l] = name[cmp.r] /\ persist[cmp.l] # persist[cmp.r]
  /\ internal_dict[cmp.l] # internal_dict[cmp.r]
  /\ cmp.eq /\ ~cmp.ne

\* C11: the release step of an operation that went on without the semaphore
\* (auto_unlock bypass) leaves the semaphore's value as it is.
C11_ReleaseOnlyIfAcquired ==
  [][\A h \in Handles :
       (pc[h] = "release" /\ pc'[h] # "release" /\ bypassed[h])
         => SemValue(h)' = SemValue(h)]_vars

\* C12: a named segment that holds a saved mapping is, after every step, at
\* least as long as the pages needed by the mapping saved to it last (the one
\* it holds after the step when it still holds one, else the one it held).
C12_SegmentHoldsSaved ==
  [][\A nm \in ShmNames :
       LET i == shm_ns[nm] IN
       (i # 0 /\ shm_ns'[nm] = i /\ segs[i].ok)
         => segs'[i].len >= RoundUp(PickleLen2(Some(IF segs'[i].ok THEN segs'[i].d
                                                      ELSE segs[i].d)))]_vars

\* C13: every step that changes a segment (its contents or its length) is a
\* step of a handle whose thread holds the lock at that moment.
C13_WritesUnderLock ==
  [][segs' # segs =>
       \E h \in Handles :
         /\ pc'[h] # pc[h] \/ alive'[h] # alive[h]
         /\ thread_local[h] /\ SemValue(h) = 0]_vars

\* The three outcomes of a load, tried in order, whatever the handle has cached.
ThreeOutcomes(seg, p, f) ==
  IF seg.ok THEN Some(seg.d)
  ELSE IF p /\ f.some THEN Some(f.d)
  ELSE Some(EmptyDict)

\* C14: every load leaves as the cached mapping the segment's mapping when the
\* segment unpickles, else the persistence file's when the handle persists and
\* the file can be read, else the empty mapping.
C14_LoadOutcome ==
  [][\A h \in Handles :
       (pc[h] = "load" /\ pc'[h] = "body")
         => internal_dict'[h] =
              ThreeOutcomes(segs'[_map_file'[h]], persist[h],
                            pfile[persist_path(name[h])])]_vars

\* C15: when the thread held the lock already at _acquire_lock, the load that
\* follows leaves the cached mapping, the segments and the files as they were.
C15_NestedAcquireNoReload ==
  [][\A h \in Handles :
       (pc[h] = "load" /\ pc'[h] = "body" /\ reentered[h])
         => /\ internal_dict'[h] = internal_dict[h]
            /\ UNCHANGED <<segs, pfile>>]_vars

\* C16: a call made by a thread other than the one that constructed the handle
\* finds its flag defined (and false), so it never ends with AttributeError.
C16_FlagDefinedInEveryThread ==
  \A h \in Handles :
    other_thread[h].call # NoCall
      => /\ other_thread[h].semaphore # "unset"
         /\ other_thread[h].result.tag # "AttributeError"

\* C17: no operation ends with the "already exists" error of the creation of
\* the segment or of the semaphore.
C17_RacingCreationIsSafe ==
  \A h \in Handles : result[h].tag # "ExistentialError"

\* The calls that do not change the mapping.
ReadOnlyKinds == {"getitem", "get", "contains", "len", "copy", "iter", "keys", "items"}

\* C18: no step of a read-only call made while dirty is false changes the
\* persistence files or the contents or length of a segment that exists.
C18_ReadOnlyChangesNothing ==
  [][\A h \in Handles :
       (/\ pc[h] # "idle" /\ pc'[h] # pc[h]
        /\ call[h].kind \in ReadOnlyKinds /\ ~dirty[h])
       => /\ pfile' = pfile
          /\ \A i \in ObjIds : segs[i].len > 0 => segs'[i] = segs[i]]_vars

\* C19: a set item, a clear and a delete item that removes its key leave dirty
\* true; dirty goes from true to false only in a save step after which the
\* segment holds the cached mapping and, for a persistent handle, so does the
\* file; a save whose file write fails ends the call with IOError, dirty true.
C19_DirtyUntilSaved ==
  [][\A h \in Handles :
       LET f == persist_path(name[h]) IN
       /\ (pc[h] = "body" /\ pc'[h] = "save"
           /\ Head(todo[h]).op \in {"set", "del", "clear"}) => dirty'[h]
       /\ (dirty[h] /\ ~dirty'[h] /\ alive'[h])
            => /\ pc[h] = "save" /\ pc'[h] = "release"
               /\ segs'[_map_file'[h]] =
                    [len |-> segs'[_map_file'[h]].len, ok |-> TRUE, d |-> internal_dict[h].d]
               /\ persist[h] => pfile'[f] = Some(internal_dict[h].d)
       /\ (/\ pc[h] = "save" /\ pc'[h] # "save" /\ thread_local[h]
           /\ dirty[h] /\ persist[h] /\ f \in unwritable)
            => /\ dirty'[h] /\ pc'[h] = "idle" /\ result'[h] = R("IOError")
               /\ pfile' = pfile]_vars
C19_Witness ==
  \E h \in Handles :
    /\ pc[h] = "idle" /\ result[h] = R("IOError") /\ dirty[h]
    /\ internal_dict[h] = Some([k \in {"K1"} |-> "V1"])
    /\ pfile[persist_path(name[h])] # internal_dict[h]

\* C20: no step of a get item or delete item of a key that the saved mapping of
\* the segment (a mapping with other keys) does not have changes that mapping
\* or a persistence file, or sets dirty.
C20_AbsentKeyChangesNothing ==
  [][\A h \in Handles :
       LET i == shm_ns[safe_shm_name(name[h])] IN
       (/\ pc[h] # "idle" /\ pc'[h] # pc[h]
        /\ call[h].kind \in {"getitem", "delitem"}
        /\ i # 0 /\ segs[i].ok /\ segs[i].d # EmptyDict
        /\ call[h].k \notin DOMAIN segs[i].d)
       => /\ segs'[i].ok /\ segs'[i].d = segs[i].d
          /\ pfile' = pfile
          /\ ~dirty'[h]]_vars

\* C21: the dict that an iterator returned by iter(h) runs over keeps its keys
\* until the next iter(h): no later operation adds a key to it or removes one.
C21_IterationOverSnapshot ==
  [][\A h \in Handles :
       (/\ snap[h].kind = "iter" /\ snap'[h].kind = "iter"
        /\ ~(pc[h] = "body" /\ call[h].kind = "iter"))
       => DOMAIN snap'[h].d = DOMAIN snap[h].d]_vars

\* C22: two live handles with the same logical name that each hold a semaphore
\* (a mapped segment) hold the same semaphore (the same segment).
C22_SameObjects ==
  \A h, g \in Handles :
    (alive[h] /\ alive[g] /\ name[h] = name[g]) =>
      /\ (_semaphore[h] # 0 /\ _semaphore[g] # 0) => _semaphore[h] = _semaphore[g]
      /\ (_map_file[h] # 0 /\ _map_file[g] # 0) => _map_file[h] = _map_file[g]

\* The threads on logical name n whose held flag is true (one thread per
\* handle), and the value of the semaphore that name n is bound to.
Holders(n) == {h \in Handles : name[h] = n /\ thread_local[h]}
NamedSemValue(n) ==
  IF sem_ns[safe_sem_name(n)] # 0 THEN sems[sem_ns[safe_sem_name(n)]] ELSE 1

\* C23: with auto_unlock false on every handle and no handle destroyed, the
\* semaphore value is 0 or 1, and the number of threads whose held flag is true
\* plus the semaphore value is 1.
C23_HoldersPlusValueIsOne ==
  (\A h \in Handles : ~auto_unlock[h] /\ alive[h]) =>
    \A n \in {name[h] : h \in Handles} :
      /\ NamedSemValue(n) \in {0, 1}
      /\ Cardinality(Holders(n)) + NamedSemValue(n) = 1

\* A with-block of h whose lock an operation inside it gave back ends while the
\* other handle holds the lock: the block's release is skipped.
C23_Witness ==
  /\ \A h \in Handles : ~auto_unlock[h] /\ alive[h]
  /\ \E h \in Handles, g \in Handles :
       /\ h # g /\ name[h] = name[g]
       /\ call[h].kind = "endwith" /\ pc[h] = "save" /\ ~thread_local[h]
       /\ thread_local[g] /\ NamedSemValue(name[g]) = 0

\* C24: for a logical name used by a persistent handle, whenever no operation
\* is in progress and the persistence file has been written, the file holds the
\* mapping that the name's segment holds.
C24_FileEqualsSegment ==
  \A h \in Handles :
    LET id == shm_ns[safe_shm_name(name[h])]
        f == pfile[persist_path(name[h])]
    IN  (/\ persist[h]
         /\ \A g \in Handles : pc[g] = "idle" /\ ~scope[g]
         /\ f.some /\ id # 0 /\ segs[id].ok)
        => f.d = segs[id].d

=============================================================================
